---- MODULE Spec2Model ----
(***************************************************************************)
(* Protein playground of yash.fun: the residue store (useProteinStore),    *)
(* the drag/snap handler of ResidueMesh, the keyboard and button handlers  *)
(* of ProteinPlayground, and the Foldseek search / RCSB load workflow of   *)
(* proteinService and StructureSearch.                                     *)
(*                                                                         *)
(* Lengths are integers in units of 0.01 angstrom (3.8 A = 380), so that   *)
(* the vector arithmetic of the snap is exact; distances are compared by   *)
(* their squares.  A residue id is the value idCounter had when            *)
(* generateId() built it; NoId stands for null.                            *)
(***************************************************************************)
EXTENDS Integers, Sequences, FiniteSets, TLC

VARIABLES
    residues,      \* useProteinStore.residues : sequence of Residue
    selectedId,    \* useProteinStore.selectedId
    idCounter,     \* module-level idCounter of useProteinStore.ts
    issued,        \* the ids generateId() has returned so far (observation)
    isLoading,     \* StructureSearch state: a search is running
    results,       \* StructureSearch state: the matches shown
    error,         \* StructureSearch state: <<message, detail>> shown, NoError for null
    loadingPdb,    \* StructureSearch state: the structure being loaded, NoPdb for null
    showSearch,    \* ProteinPlayground state: the StructureSearch modal is mounted
    pendingLoads,  \* fetchPDBStructure calls of handleLoadResult not yet settled
    pc,            \* where the running searchFoldseek call is suspended
    ticketAnswer,  \* what the ticket endpoint answered that call, NoAnswer before
    submits,       \* ticket submissions sent by that call
    fetches,       \* status fetches sent by that call
    waits,         \* poll-interval waits that call has sat through
    history,       \* the status values that call has read, oldest first
    statusData,    \* the last status answer that call has parsed, NoStatus before
    outcome,       \* how that call settled: NoOutcome, Matches or the error thrown
    settles,       \* how many times that call has settled
    submitted,     \* the residues argument of that call, exported into its ticket request
    last,          \* the last store-changing handler and what it decided (observation)
    board,         \* TicTacToePage state: the nine squares, "X", "O" or NoSquare
    xIsNext,       \* TicTacToePage state: the next mark is X
    isCPUMode      \* TicTacToePage state: O is played by findBestMove

storeVars == <<residues, selectedId, idCounter, issued>>

uiVars == <<isLoading, results, error, loadingPdb, showSearch>>

gameVars == <<board, xIsNext, isCPUMode>>

callVars == <<pc, ticketAnswer, submits, fetches, waits, history, statusData, outcome,
              settles, submitted>>

vars == <<residues, selectedId, idCounter, issued, isLoading, results, error, loadingPdb,
          showSearch, pendingLoads, pc, ticketAnswer, submits, fetches, waits, history,
          statusData, outcome, settles, submitted, last, board, xIsNext, isCPUMode>>

-----------------------------------------------------------------------------
(* Bounds and input sets *)

MaxIds == 2            \* generateId() is called at most this many times

MaxPolls == 3          \* status fetches one searchFoldseek call is followed through

MaxChain == 4          \* longest residue list handed to searchFoldseek

AminoCodes == {"Gly"}

\* hits of the raycast on the drop plane (x, z); the plane lies at y = -0.1
DropPlaneHits == {<<120, 0>>}

\* pointer positions (x, y) a drag can reach; z is kept by the handler
DragTargets == {<<0, -10>>, <<500, -10>>}

PdbIds == {"1ABC", "2XYZ", "3TRI", "0NUL"}

-----------------------------------------------------------------------------
(* Constants of the program *)

NoId == 0

NoError == <<"null", "">>

NoPdb == "null"

NoAnswer == "none"

NoSquare == "null"

\* statusData before any status answer was parsed
NoStatus ==
    [kind |-> "none", ok |-> TRUE, status |-> "PENDING", message |-> "",
     payload |-> [hasResults |-> FALSE, results |-> <<>>]]

NoOutcome == <<"pending", "">>

Matches == <<"matches", "">>

\* a coordinate that is not a finite number (NaN, Infinity)
NotFinite == 99999999

BOND_DISTANCE == 380

SNAP_THRESHOLD == 500

IdentityRotation == <<0, 0, 0, 1>>

-----------------------------------------------------------------------------
(* Vector helpers (THREE.Vector3) *)

VSub(a, b) == <<a[1] - b[1], a[2] - b[2], a[3] - b[3]>>

VAdd(a, b) == <<a[1] + b[1], a[2] + b[2], a[3] + b[3]>>

LengthSq(v) == v[1] * v[1] + v[2] * v[2] + v[3] * v[3]

DistSq(a, b) == LengthSq(VSub(a, b))

\* floor of the square root of n (Newton iteration from r >= sqrt(n))
RECURSIVE SqrtFrom(_, _)
SqrtFrom(n, r) == IF r * r <= n THEN r ELSE SqrtFrom(n, (r + n \div r) \div 2)

\* Vector3.length() of a vector shorter than the snap threshold: the root,
\* when it is a whole number of units; -1 marks a length the integer model
\* cannot represent
Length(v) ==
    LET n == LengthSq(v)
        r == IF n = 0 THEN 0 ELSE SqrtFrom(n, SNAP_THRESHOLD)
    IN  IF r * r = n THEN r ELSE -1

\* Vector3.normalize() is divideScalar(length() || 1); followed by
\* multiplyScalar(BOND_DISTANCE)
ScaledDirection(v) ==
    LET len == IF Length(v) = 0 THEN 1 ELSE Length(v)
    IN  <<(v[1] * BOND_DISTANCE) \div len,
          (v[2] * BOND_DISTANCE) \div len,
          (v[3] * BOND_DISTANCE) \div len>>

\* the snap of a drop at p onto a residue at o is computed without rounding
ExactSnap(p, o) ==
    LET v == VSub(p, o)
        len == Length(v)
    IN  /\ len >= 0
        /\ len > 0 => \A k \in 1..3 : (v[k] * BOND_DISTANCE) % len = 0

-----------------------------------------------------------------------------
(* Store operations (useProteinStore.ts) *)

NewResidue(id, type, position) ==
    [id |-> id, type |-> type, position |-> position,
     rotation |-> IdentityRotation, connectedTo |-> NoId]

Ids(rs) == {rs[i].id : i \in DOMAIN rs}

IndexOf(rs, id) == CHOOSE i \in DOMAIN rs : rs[i].id = id

\* an id made of the time of the call alone
generateIdFromTime(counter) == 1

\* lines 27-30: the id built from the counter after its increment (the time
\* stamp in front of it is left out)
generateId(counter) == counter

addResidue(rs, id, type, position) == Append(rs, NewResidue(id, type, position))

\* an update that adds the residue when its id is not in the list
updateResidueOrAdd(rs, id, position) ==
    IF id \in Ids(rs)
    THEN [i \in DOMAIN rs |->
             IF rs[i].id = id THEN [rs[i] EXCEPT !.position = position] ELSE rs[i]]
    ELSE Append(rs, NewResidue(id, "Gly", position))

updateResidue(rs, id, position) ==
    [i \in DOMAIN rs |->
        IF rs[i].id = id THEN [rs[i] EXCEPT !.position = position] ELSE rs[i]]

RECURSIVE FilterOut(_, _)
FilterOut(rs, id) ==
    IF rs = <<>> THEN <<>>
    ELSE IF Head(rs).id = id THEN FilterOut(Tail(rs), id)
         ELSE <<Head(rs)>> \o FilterOut(Tail(rs), id)

\* a cascade that drops every bond, not only the bonds to the removed residue
ClearRefsOfAll(rs, id) == [i \in DOMAIN rs |-> [rs[i] EXCEPT !.connectedTo = NoId]]

ClearRefs(rs, id) ==
    [i \in DOMAIN rs |->
        [rs[i] EXCEPT !.connectedTo = IF rs[i].connectedTo = id THEN NoId
                                       ELSE rs[i].connectedTo]]

\* a removal without the cascade
removeResidueOnly(rs, id) == FilterOut(rs, id)

removeResidue(rs, id) == ClearRefs(FilterOut(rs, id), id)

\* a connect that writes the bond on both residues
connectResiduesBothWays(rs, idA, idB) ==
    [i \in DOMAIN rs |->
        IF rs[i].id = idA THEN [rs[i] EXCEPT !.connectedTo = idB]
        ELSE IF rs[i].id = idB THEN [rs[i] EXCEPT !.connectedTo = idA]
        ELSE rs[i]]

\* a connect that keeps a bond the residue already has
connectResiduesIfFree(rs, idA, idB) ==
    [i \in DOMAIN rs |->
        IF rs[i].id = idA /\ rs[i].connectedTo = NoId
        THEN [rs[i] EXCEPT !.connectedTo = idB]
        ELSE rs[i]]

connectResidues(rs, idA, idB) ==
    [i \in DOMAIN rs |->
        IF rs[i].id = idA THEN [rs[i] EXCEPT !.connectedTo = idB] ELSE rs[i]]

\* a setResidues that adds the new residues to the ones in the store
setResiduesAppending(rs, newResidues) == rs \o newResidues

\* lines 89-91: the list of the store after setResidues(newResidues)
setResidues(rs, newResidues) == newResidues

-----------------------------------------------------------------------------
(* Snap (ResidueMesh.tsx, useDrag handler) *)

\* a threshold that admits the distance 5.0 itself
WithinThresholdInclusive(dSq) == dSq <= SNAP_THRESHOLD * SNAP_THRESHOLD

\* distance < SNAP_THRESHOLD, on squared distances
WithinThreshold(dSq) == dSq < SNAP_THRESHOLD * SNAP_THRESHOLD

\* a comparison that lets a residue as near as the closest so far replace it
CloserOrAsClose(d, closest) == d <= closest

\* distance < closestDistance, on squared distances
Closer(d, closest) == d < closest

\* the loop over residues: index of closestResidue, 0 when it stays null
RECURSIVE ClosestFrom(_, _, _, _, _)
ClosestFrom(rs, draggedId, p, i, best) ==
    IF i > Len(rs) THEN best
    ELSE LET other == rs[i]
             d == DistSq(p, other.position)
         IN  IF other.id = draggedId THEN ClosestFrom(rs, draggedId, p, i + 1, best)
             ELSE IF other.connectedTo = draggedId
                  THEN ClosestFrom(rs, draggedId, p, i + 1, best)
             ELSE IF /\ WithinThreshold(d)
                     /\ (best = 0 \/ Closer(d, DistSq(p, rs[best].position)))
                  THEN ClosestFrom(rs, draggedId, p, i + 1, i)
             ELSE ClosestFrom(rs, draggedId, p, i + 1, best)

ClosestResidue(rs, draggedId, p) == ClosestFrom(rs, draggedId, p, 1, 0)

SnappedPos(p, otherPos) == VAdd(otherPos, ScaledDirection(VSub(p, otherPos)))

\* the store after one call of the drag handler for residue `id` at pointer p
DragResult(rs, id, p, active) ==
    LET moved == updateResidue(rs, id, p)
        c == ClosestResidue(rs, id, p)
    IN  IF active \/ c = 0 THEN moved
        ELSE connectResidues(
                 updateResidue(moved, id, SnappedPos(p, rs[c].position)),
                 rs[c].id, id)

-----------------------------------------------------------------------------
(* fetchPDBStructure (proteinService.ts) *)

\* parsePDBToResidues of the file RCSB serves for pdb: fresh ids, no bonds
ParsedStructure(pdb) ==
    IF pdb = "1ABC"
    THEN << NewResidue(-1, "ALA", <<1000, 2000, 300>>) >>
    ELSE IF pdb = "2XYZ"
    THEN << NewResidue(-2, "GLY", <<1000, 2000, 300>>),
            NewResidue(-3, "ALA", <<1380, 2000, 300>>) >>
    ELSE IF pdb = "3TRI"
    THEN << NewResidue(-4, "SER", <<0, 0, 90>>),
            NewResidue(-5, "GLY", <<380, 300, 0>>),
            NewResidue(-6, "ALA", <<760, 0, 0>>) >>
    ELSE << >>

RECURSIVE SumAxis(_, _)
SumAxis(rs, k) ==
    IF rs = <<>> THEN 0 ELSE Head(rs).position[k] + SumAxis(Tail(rs), k)

\* a centering that subtracts the mean of the first axis only
CenterStructureOnX(rs) ==
    LET avg == SumAxis(rs, 1) \div Len(rs)
    IN  [i \in DOMAIN rs |->
            [rs[i] EXCEPT !.position = <<rs[i].position[1] - avg,
                                         rs[i].position[2],
                                         rs[i].position[3]>>]]

\* fetchPDBStructure, lines 110-124: subtract the mean of each axis
CenterStructure(rs) ==
    LET avg == [k \in 1..3 |-> SumAxis(rs, k) \div Len(rs)]
    IN  [i \in DOMAIN rs |->
            [rs[i] EXCEPT !.position = <<rs[i].position[1] - avg[1],
                                         rs[i].position[2] - avg[2],
                                         rs[i].position[3] - avg[3]>>]]

-----------------------------------------------------------------------------

\* a fetch that returns whatever was parsed, the empty list included
FetchPDBStructureUnchecked(pdb, ok) ==
    IF ~ok THEN [error |-> <<"Failed to fetch PDB", "404">>, residues |-> << >>]
    ELSE IF Len(ParsedStructure(pdb)) = 0 THEN [error |-> NoError, residues |-> << >>]
    ELSE [error |-> NoError, residues |-> CenterStructure(ParsedStructure(pdb))]

\* fetchPDBStructure(pdbId) for a response with the given ok flag: the error
\* thrown, or "ok" and the centered residues
FetchPDBStructure(pdb, ok) ==
    IF ~ok THEN [error |-> <<"Failed to fetch PDB", "404">>, residues |-> << >>]
    ELSE IF Len(ParsedStructure(pdb)) = 0
         THEN [error |-> <<"No valid residues found in PDB file", "">>, residues |-> << >>]
    ELSE [error |-> NoError, residues |-> CenterStructure(ParsedStructure(pdb))]

-----------------------------------------------------------------------------
(* Handlers of the playground (ProteinPlayground.tsx, ResidueMesh.tsx) *)

\* `replaced` is the connectedTo a snap overwrote, NoId when it overwrote null
\* or nothing was snapped
Obs(op, id, p, neighbor) ==
    [op |-> op, id |-> id, p |-> p, neighbor |-> neighbor, replaced |-> NoId]

\* what `last` holds after a handler that leaves the residue list alone, or
\* only moves a residue in mid-drag
Other == Obs("other", NoId, <<>>, NoId)

\* a residue bonded to `id`, NoId when there is none
Referrer(rs, id) ==
    IF \E i \in DOMAIN rs : rs[i].connectedTo = id
    THEN rs[CHOOSE i \in DOMAIN rs : rs[i].connectedTo = id].id
    ELSE NoId

\* useState of TicTacToePage: an empty board, X to move, two players
GameStart ==
    /\ board = [i \in 0..8 |-> NoSquare]
    /\ xIsNext = TRUE
    /\ isCPUMode = FALSE

Init ==
    /\ residues = <<>>
    /\ selectedId = NoId
    /\ idCounter = 0
    /\ issued = {}
    /\ isLoading = FALSE
    /\ results = <<>>
    /\ error = NoError
    /\ loadingPdb = NoPdb
    /\ showSearch = FALSE
    /\ pendingLoads = {}
    /\ pc = "idle"
    /\ ticketAnswer = NoAnswer
    /\ submits = 0
    /\ fetches = 0
    /\ waits = 0
    /\ history = <<>>
    /\ statusData = NoStatus
    /\ outcome = NoOutcome
    /\ settles = 0
    /\ submitted = <<>>
    /\ last = Obs("init", NoId, <<>>, NoId)
    /\ GameStart

\* DropPlane.handleDrop: addResidue at the ray hit, or at the origin
HandleDrop(code, position) ==
    /\ idCounter < MaxIds
    /\ idCounter' = idCounter + 1
    /\ issued' = issued \cup {generateId(idCounter')}
    /\ residues' = addResidue(residues, generateId(idCounter'), code, position)
    /\ last' = Obs("add", generateId(idCounter'), position, NoId)
    /\ UNCHANGED <<selectedId, uiVars, pendingLoads, gameVars, callVars>>

\* one call of the useDrag handler of the mesh of residues[i]: the pointer is
\* at target; active is false on release
DragHandler(i, target, active) ==
    LET residue == residues[i]
        p == <<target[1], target[2], residue.position[3]>>
        c == ClosestResidue(residues, residue.id, p)
    IN  /\ (~active /\ c # 0) => ExactSnap(p, residues[c].position)
        /\ residues' = DragResult(residues, residue.id, p, active)
        /\ last' = IF active THEN Other
                   ELSE IF c = 0 THEN Obs("release", residue.id, p, NoId)
                   ELSE [Obs("release", residue.id, p, residues[c].id)
                            EXCEPT !.replaced = residues[c].connectedTo]
        /\ UNCHANGED <<selectedId, idCounter, issued, uiVars, pendingLoads, gameVars, callVars>>

\* ResidueMesh.handleClick
HandleClick(i) ==
    /\ selectedId' = IF selectedId = residues[i].id THEN NoId ELSE residues[i].id
    /\ last' = Other
    /\ UNCHANGED <<residues, idCounter, issued, uiVars, pendingLoads, gameVars, callVars>>

\* Escape key, or a click that misses every mesh: selectResidue(null)
Deselect ==
    /\ selectedId # NoId
    /\ selectedId' = NoId
    /\ last' = Other
    /\ UNCHANGED <<residues, idCounter, issued, uiVars, pendingLoads, gameVars, callVars>>

\* a deletion that is held back while a search is running
DeleteSelectedWhenIdle ==
    /\ ~isLoading
    /\ selectedId # NoId
    /\ residues' = removeResidue(residues, selectedId)
    /\ selectedId' = NoId
    /\ last' = Obs("remove", selectedId, <<>>, Referrer(residues, selectedId))
    /\ UNCHANGED <<idCounter, issued, uiVars, pendingLoads, gameVars, callVars>>

\* Delete / Backspace key, or the delete button: removeResidue(selectedId)
DeleteSelected ==
    /\ selectedId # NoId
    /\ residues' = removeResidue(residues, selectedId)
    /\ selectedId' = NoId
    /\ last' = Obs("remove", selectedId, <<>>, Referrer(residues, selectedId))
    /\ UNCHANGED <<idCounter, issued, uiVars, pendingLoads, gameVars, callVars>>

\* a clear that leaves the selection as it is
ClearAllKeepingSelection ==
    /\ residues # <<>>
    /\ residues' = <<>>
    /\ last' = Obs("clear", NoId, <<>>, NoId)
    /\ UNCHANGED <<selectedId, idCounter, issued, uiVars, pendingLoads, gameVars, callVars>>

\* the clear button (disabled while the graph is empty)
ClearAll ==
    /\ residues # <<>>
    /\ residues' = <<>>
    /\ selectedId' = NoId
    /\ last' = Obs("clear", NoId, <<>>, NoId)
    /\ UNCHANGED <<idCounter, issued, uiVars, pendingLoads, gameVars, callVars>>

-----------------------------------------------------------------------------
(* Loading a structure (StructureSearch.handleLoadResult) *)

\* handleLoadResult up to its await
HandleLoadResult(pdb) ==
    /\ showSearch
    /\ pdb \notin pendingLoads
    /\ loadingPdb # pdb
    /\ loadingPdb' = pdb
    /\ pendingLoads' = pendingLoads \cup {pdb}
    /\ last' = Other
    /\ UNCHANGED <<storeVars, isLoading, results, error, showSearch, callVars, gameVars>>

\* the modal is taken off the page: the state of StructureSearch goes with
\* it, and a later mount starts from the initial state
Unmount ==
    /\ showSearch' = FALSE
    /\ isLoading' = FALSE
    /\ results' = <<>>
    /\ error' = NoError
    /\ loadingPdb' = NoPdb

\* the fetch of pdb settles and handleLoadResult runs to its end: on
\* success setResidues and onClose, on failure setError; the state setters
\* of an unmounted StructureSearch do nothing
LoadSettles(pdb, ok) ==
    LET got == FetchPDBStructure(pdb, ok)
    IN  /\ pdb \in pendingLoads
        /\ pendingLoads' = pendingLoads \ {pdb}
        /\ IF got.error = NoError
           THEN /\ residues' = setResidues(residues, got.residues)
                /\ selectedId' = NoId
                /\ last' = Obs("loaded", NoId,
                               <<pdb, IF showSearch THEN "mounted" ELSE "unmounted">>, NoId)
                /\ Unmount
           ELSE /\ error' = IF showSearch THEN got.error ELSE error
                /\ loadingPdb' = NoPdb
                /\ last' = Other
                /\ UNCHANGED <<residues, selectedId, isLoading, results, showSearch>>
        /\ UNCHANGED <<idCounter, issued, callVars, gameVars>>

\* the search button of the toolbar: setShowSearch(true). A modal is opened
\* once the calls of the one closed before it have settled.
OpenSearch ==
    /\ ~showSearch
    /\ pendingLoads = {}
    /\ pc \notin {"ticket", "wait", "status"}
    /\ showSearch' = TRUE
    /\ last' = Other
    /\ UNCHANGED <<storeVars, isLoading, results, error, loadingPdb, pendingLoads, gameVars, callVars>>

\* a close that also abandons the running call
CloseSearchCancelling ==
    /\ showSearch
    /\ Unmount
    /\ pc' = IF pc \in {"ticket", "wait", "status"} THEN "idle" ELSE pc
    /\ last' = Obs("close", NoId, <<fetches>>, NoId)
    /\ UNCHANGED <<storeVars, pendingLoads, gameVars, ticketAnswer, submits, fetches, waits, history,
                   statusData, outcome, settles, submitted>>

\* the close button or a click on the backdrop: onClose, setShowSearch(false);
\* the observation keeps the number of status fetches sent before the close
CloseSearch ==
    /\ showSearch
    /\ Unmount
    /\ last' = Obs("close", NoId, <<fetches>>, NoId)
    /\ UNCHANGED <<storeVars, pendingLoads, gameVars, callVars>>

-----------------------------------------------------------------------------
(* The playground: every handler that reaches the store *)

Next ==
    \/ \E code \in AminoCodes, hit \in DropPlaneHits :
           HandleDrop(code, <<hit[1], -10, hit[2]>>)
    \/ \E code \in AminoCodes : HandleDrop(code, <<0, 0, 0>>)
    \/ \E i \in DOMAIN residues, t \in DragTargets, active \in BOOLEAN :
           DragHandler(i, t, active)
    \/ \E i \in DOMAIN residues : HandleClick(i)
    \/ Deselect
    \/ DeleteSelected
    \/ ClearAll
    \/ OpenSearch
    \/ \E pdb \in {"1ABC"} : HandleLoadResult(pdb)
    \/ \E pdb \in {"1ABC"}, ok \in BOOLEAN : LoadSettles(pdb, ok)

Spec == Init /\ [][Next]_vars

-----------------------------------------------------------------------------
(* Properties of the residue graph, checked under Spec *)

Dragged == residues[IndexOf(residues, last.id)]

Neighbor == residues[IndexOf(residues, last.neighbor)]

Snapped == last.op = "release" /\ last.neighbor # NoId

\* C1: in every reachable state each residue's connectedTo is null or the id
\* of a residue of the graph other than itself
C1_BondsStayInsideGraph ==
    \A i \in DOMAIN residues :
        \/ residues[i].connectedTo = NoId
        \/ /\ residues[i].connectedTo \in Ids(residues)
           /\ residues[i].connectedTo # residues[i].id

\* a residue that had a bond to it has just been removed, and a bond between
\* two other residues is still there
C1_Witness ==
    /\ last.op = "remove"
    /\ last.neighbor # NoId
    /\ \E i \in DOMAIN residues : residues[i].connectedTo # NoId

\* C2: remove(id) deletes the residue id, sets to null the connectedTo of
\* every residue that was bonded to id, and leaves every other residue's
\* connectedTo as it was
C2_RemoveCascades ==
    [][last'.op = "remove" =>
        /\ last'.id \in Ids(residues)
        /\ Ids(residues') = Ids(residues) \ {last'.id}
        /\ \A i \in DOMAIN residues : \A j \in DOMAIN residues' :
               residues'[j].id = residues[i].id =>
                   residues'[j].connectedTo =
                       IF residues[i].connectedTo = last'.id THEN NoId
                       ELSE residues[i].connectedTo]_vars

\* the removed residue had a bond to it, which is gone, and another residue
\* keeps its bond
C2_Witness ==
    /\ last.op = "remove"
    /\ last.neighbor \in Ids(residues)
    /\ residues[IndexOf(residues, last.neighbor)].connectedTo = NoId
    /\ \E i \in DOMAIN residues : residues[i].connectedTo \notin {NoId, last.id}

\* C3: after a release that snaps the dragged residue D onto the neighbor N,
\* the bond is on the dragged residue: D.connectedTo = N.id
C3_ForwardBondOnDragged == Snapped => Dragged.connectedTo = last.neighbor

\* C4: after a release that snaps D onto N, D lies at distance 3.8 from N,
\* whatever the distance of the release point from N was, 0 included
C4_SnappedAtBondDistance ==
    Snapped => DistSq(Dragged.position, Neighbor.position) = BOND_DISTANCE * BOND_DISTANCE

\* an eligible residue: not the dragged one and not already bonded to it
Eligible(rs, id, p) ==
    {j \in DOMAIN rs : rs[j].id # id /\ rs[j].connectedTo # id}

\* C5: a release at p with no eligible residue strictly closer than 5.0
\* leaves the dragged residue at p and changes no residue's connectedTo
C5_NoSnapBeyondThreshold ==
    [][(/\ last'.op = "release"
        /\ \A j \in Eligible(residues, last'.id, last'.p) :
               DistSq(last'.p, residues[j].position) >= SNAP_THRESHOLD * SNAP_THRESHOLD)
       => /\ Len(residues') = Len(residues)
          /\ residues'[IndexOf(residues', last'.id)].position = last'.p
          /\ \A j \in DOMAIN residues :
                 residues'[j].connectedTo = residues[j].connectedTo]_vars

\* a release that did not snap although another eligible residue was at
\* distance 5.0 exactly
C5_Witness ==
    /\ last.op = "release"
    /\ last.neighbor = NoId
    /\ Dragged.position = last.p
    /\ \E j \in Eligible(residues, last.id, last.p) :
           DistSq(last.p, residues[j].position) = SNAP_THRESHOLD * SNAP_THRESHOLD

\* C6: no two residues are bonded to each other at the same time
C6_NoMutualBonds ==
    \A i, j \in DOMAIN residues :
        ~(/\ residues[i].connectedTo = residues[j].id
          /\ residues[j].connectedTo = residues[i].id)

\* C26: the selection is null or the id of a residue of the graph
C26_SelectionIsInGraph == selectedId = NoId \/ selectedId \in Ids(residues)

\* the selected residue was dragged onto another one and is still selected
C26_Witness ==
    /\ Snapped
    /\ selectedId = last.id
    /\ selectedId \in Ids(residues)

-----------------------------------------------------------------------------
(* Loading structures into a graph that is in use, checked under LoadSpec *)

LoadNext ==
    \/ \E code \in AminoCodes : HandleDrop(code, <<0, 0, 0>>)
    \/ \E i \in DOMAIN residues : HandleClick(i)
    \/ OpenSearch
    \/ \E pdb \in PdbIds : HandleLoadResult(pdb)
    \/ \E pdb \in PdbIds, ok \in BOOLEAN : LoadSettles(pdb, ok)

LoadSpec == Init /\ [][LoadNext]_vars

\* the fetch of pdb succeeds: the response is ok and the file has residues
Loadable(pdb, ok) == ok /\ Len(ParsedStructure(pdb)) > 0

\* C13: when a load settles after a non-success response or a file without
\* residues, residues and selection are what they were; when it settles
\* after a success, residues are exactly the parsed residues of that file,
\* in their order and each moved by the same vector, and the selection is
\* null
C13_LoadIsAllOrNothing ==
    [][\A pdb \in PdbIds, ok \in BOOLEAN :
          LoadSettles(pdb, ok) =>
              IF Loadable(pdb, ok)
              THEN LET parsed == ParsedStructure(pdb)
                   IN  /\ Len(residues') = Len(parsed)
                       /\ \A i \in DOMAIN parsed :
                              /\ residues'[i].id = parsed[i].id
                              /\ residues'[i].type = parsed[i].type
                              /\ residues'[i].rotation = parsed[i].rotation
                              /\ residues'[i].connectedTo = parsed[i].connectedTo
                              /\ VSub(residues'[i].position, parsed[i].position)
                                     = VSub(residues'[1].position, parsed[1].position)
                       /\ selectedId' = NoId
              ELSE /\ residues' = residues
                   /\ selectedId' = selectedId]_vars

\* a load has failed on a file without residues while the graph holds two
\* residues, one of them selected
C13_Witness ==
    /\ error = <<"No valid residues found in PDB file", "">>
    /\ Len(residues) = 2
    /\ selectedId \in Ids(residues)
    /\ pendingLoads = {}

\* C14: the residues a successful load puts into the graph have mean 0 on
\* every axis, and the difference of the positions of any two of them is
\* the difference of their positions in the file
C14_RecenteredOnMean ==
    [][\A pdb \in PdbIds :
          (LoadSettles(pdb, TRUE) /\ Loadable(pdb, TRUE)) =>
              LET parsed == ParsedStructure(pdb)
              IN  /\ \A k \in 1..3 : SumAxis(residues', k) = 0
                  /\ DOMAIN residues' = DOMAIN parsed
                  /\ \A i, j \in DOMAIN parsed :
                         VSub(residues'[i].position, residues'[j].position)
                             = VSub(parsed[i].position, parsed[j].position)]_vars

\* the structure of three residues has been loaded and is centered
C14_Witness ==
    /\ last.op = "loaded"
    /\ Len(residues) = 3
    /\ residues[1].position = <<-380, -100, 60>>
    /\ residues[3].position = <<380, -100, -30>>

\* C28: a load that succeeds while another load is pending, or after an
\* earlier one has closed the modal, puts exactly the centered residues of
\* its own file into the graph; and as long as nothing else has touched
\* the graph since, the graph is exactly the structure of the load that
\* completed last
C28_LastCompletedLoadWins ==
    /\ [](last.op = "loaded" =>
             /\ residues = FetchPDBStructure(last.p[1], TRUE).residues
             /\ selectedId = NoId)
    /\ [][\A pdb \in PdbIds :
              (/\ LoadSettles(pdb, TRUE)
               /\ Loadable(pdb, TRUE)
               /\ (pendingLoads # {pdb} \/ ~showSearch))
              => /\ residues' = FetchPDBStructure(pdb, TRUE).residues
                 /\ last'.p[1] = pdb]_vars

\* the load of 2XYZ completed after an overlapping load had closed the
\* modal, and the graph is 2XYZ alone
C28_Witness ==
    /\ last.op = "loaded"
    /\ last.p = <<"2XYZ", "unmounted">>
    /\ pendingLoads = {}
    /\ Ids(residues) = Ids(ParsedStructure("2XYZ"))
    /\ Len(residues) = 2

-----------------------------------------------------------------------------
(* The store on its own: calls of its operations with ids of residues, of   *)
(* removed residues and of residues that never were, checked under          *)
(* StoreSpec.  A caller of connectResidues passes an idB that is in the     *)
(* graph and is not idA, as the snap does.                                  *)

\* the ids the operations are called with
CallIds == (1..(MaxIds + 1)) \cup {-1}

CallPositions == {<<0, -10, 0>>}

\* a removal that always drops the selection
SelectionAfterRemoveIsNull(sel, id) == NoId

\* removeResidue, line 69: selectedId after the removal of id
SelectionAfterRemove(sel, id) == IF sel = id THEN NoId ELSE sel

UpdateCall(id, position) ==
    /\ residues' = updateResidue(residues, id, position)
    /\ last' = Obs("update", id, position, NoId)
    /\ UNCHANGED <<selectedId, idCounter, issued, uiVars, pendingLoads, gameVars, callVars>>

RemoveCall(id) ==
    /\ residues' = removeResidue(residues, id)
    /\ selectedId' = SelectionAfterRemove(selectedId, id)
    /\ last' = Obs("remove", id, <<>>, Referrer(residues, id))
    /\ UNCHANGED <<idCounter, issued, uiVars, pendingLoads, gameVars, callVars>>

ConnectCall(idA, idB) ==
    /\ idB \in Ids(residues)
    /\ idB # idA
    /\ residues' = connectResidues(residues, idA, idB)
    /\ last' = Obs("connect", idA, <<>>, idB)
    /\ UNCHANGED <<selectedId, idCounter, issued, uiVars, pendingLoads, gameVars, callVars>>

\* setResidues(list) with the residues of a fetched structure
SetResiduesCall(pdb) ==
    /\ residues' = setResidues(residues, CenterStructure(ParsedStructure(pdb)))
    /\ selectedId' = NoId
    /\ last' = Obs("replaceAll", NoId, <<>>, NoId)
    /\ UNCHANGED <<idCounter, issued, uiVars, pendingLoads, gameVars, callVars>>

StoreNext ==
    \/ \E code \in AminoCodes : HandleDrop(code, <<0, 0, 0>>)
    \/ \E id \in CallIds, p \in CallPositions : UpdateCall(id, p)
    \/ \E id \in CallIds : RemoveCall(id)
    \/ \E idA, idB \in CallIds : ConnectCall(idA, idB)
    \/ \E i \in DOMAIN residues : HandleClick(i)
    \/ Deselect
    \/ ClearAll
    \/ SetResiduesCall("1ABC")

StoreSpec == Init /\ [][StoreNext]_vars

\* C16: every id addResidue returns differs from every id it returned
\* before, whatever was removed or cleared in between, and the ids of the
\* residues in the graph are pairwise distinct
C16_IdsAreFresh ==
    /\ [](\A i, j \in DOMAIN residues : residues[i].id = residues[j].id => i = j)
    /\ [][last'.op = "add" =>
             /\ last'.id \notin issued
             /\ last'.id \in issued'
             /\ issued \subseteq issued'
             /\ residues'[Len(residues')].id = last'.id]_vars

\* the second id has been returned while the residue with the first id is
\* no longer in the graph
C16_Witness ==
    /\ last.op = "add"
    /\ issued = {1, 2}
    /\ Ids(residues) = {2}

C18_SelectionFollowsDestruction ==
    [][/\ last'.op \in {"clear", "replaceAll"} => selectedId' = NoId
       /\ last'.op = "remove" =>
              selectedId' = IF selectedId = last'.id THEN NoId ELSE selectedId
       /\ last'.op \in {"add", "update", "connect"} => selectedId' = selectedId]_vars

\* a residue was removed while another one was selected, and that one still
\* is
C18_Witness ==
    /\ last.op = "remove"
    /\ last.id \in issued
    /\ last.id \notin Ids(residues)
    /\ selectedId \in Ids(residues)

-----------------------------------------------------------------------------
(* The structure codec (utils/pdbExporter.ts), checked under CodecSpec.     *)
(* In this section a coordinate is an integer of 0.0001 angstrom, one digit *)
(* finer than the three decimals of the text format.                        *)

CodecTypes == {"Gly", "Ala"}

CodecPositions == {<<0, 0, 0>>, <<12346, -5, 4>>, <<-38004, 15, 99995>>, <<5, -15, 380000>>}

Abs(c) == IF c < 0 THEN -c ELSE c

Sign(c) == IF c < 0 THEN -1 ELSE 1

\* a coordinate written with two decimals, in thousandths
Format2(c) == Sign(c) * ((Abs(c) + 50) \div 100) * 10

\* a coordinate written with three decimals, in thousandths
Format3(c) == Sign(c) * ((Abs(c) + 5) \div 10)

\* the coordinate record of the i-th residue
AtomRecord(i, r) ==
    [tag |-> "ATOM", serial |-> i, atom |-> "CA", resName |-> r.type, chain |-> "A",
     resSeq |-> i, x |-> Format3(r.position[1]), y |-> Format3(r.position[2]),
     z |-> Format3(r.position[3])]

EndRecord ==
    [tag |-> "END", serial |-> 0, atom |-> "", resName |-> "", chain |-> "", resSeq |-> 0,
     x |-> 0, y |-> 0, z |-> 0]

\* exportToPDB: the validity it reports (zero residues or a coordinate that
\* is not finite make the export invalid)
ExportIsValid(rs) ==
    /\ Len(rs) > 0
    /\ \A i \in DOMAIN rs : \A k \in 1..3 : rs[i].position[k] # NotFinite

exportToPDB(rs) ==
    [pdbString |-> [i \in 1..(Len(rs) + 1) |->
                       IF i <= Len(rs) THEN AtomRecord(i, rs[i]) ELSE EndRecord],
     isValid |-> ExportIsValid(rs)]

IsAtomRecord(rec) == rec.tag = "ATOM"

\* fresh residues from the coordinate records of a text
parsePDBToResidues(text) ==
    LET atoms == SelectSeq(text, IsAtomRecord)
    IN  [i \in DOMAIN atoms |->
            NewResidue(-i, atoms[i].resName,
                       <<atoms[i].x * 10, atoms[i].y * 10, atoms[i].z * 10>>)]

\* residue lists of one and two residues, with and without bonds
CodecInputs ==
    {<<NewResidue(1, t, p)>> : t \in CodecTypes, p \in CodecPositions}
    \cup {<<[NewResidue(1, t1, p1) EXCEPT !.connectedTo = c1],
            [NewResidue(2, t2, p2) EXCEPT !.connectedTo = c2]>> :
              t1 \in CodecTypes, t2 \in {"Gly"}, p1 \in CodecPositions,
              p2 \in CodecPositions, c1 \in {NoId, 2}, c2 \in {NoId, 1}}

CodecInit ==
    /\ residues \in CodecInputs
    /\ idCounter = Len(residues)
    /\ issued = Ids(residues)
    /\ selectedId = NoId
    /\ isLoading = FALSE
    /\ results = <<>>
    /\ error = NoError
    /\ loadingPdb = NoPdb
    /\ showSearch = FALSE
    /\ pendingLoads = {}
    /\ pc = "idle"
    /\ ticketAnswer = NoAnswer
    /\ submits = 0
    /\ fetches = 0
    /\ waits = 0
    /\ history = <<>>
    /\ statusData = NoStatus
    /\ outcome = NoOutcome
    /\ settles = 0
    /\ submitted = <<>>
    /\ last = Obs("init", NoId, <<>>, NoId)
    /\ GameStart

\* the list is exported and the text imported again
RoundTrip ==
    /\ last.op = "init"
    /\ exportToPDB(residues).isValid
    /\ residues' = parsePDBToResidues(exportToPDB(residues).pdbString)
    /\ last' = Obs("roundtrip", NoId, residues[1].position, NoId)
    /\ UNCHANGED <<selectedId, idCounter, issued, uiVars, pendingLoads, gameVars, callVars>>

CodecSpec == CodecInit /\ [][RoundTrip]_vars

\* 0.001 angstrom
Precision == 10

\* C15: importing the export of a list of one or more residues with finite
\* coordinates gives as many residues, with the same types in the same
\* order, coordinates within 0.001 angstrom of the exported ones, and
\* connectedTo null on every residue
C15_CodecRoundTrip ==
    [][last'.op = "roundtrip" =>
          /\ Len(residues') = Len(residues)
          /\ \A i \in DOMAIN residues :
                 /\ residues'[i].type = residues[i].type
                 /\ residues'[i].connectedTo = NoId
                 /\ \A k \in 1..3 :
                        Abs(residues'[i].position[k] - residues[i].position[k])
                            <= Precision]_vars

\* two residues have come back from a round trip, the first at a position
\* that the three decimals changed
C15_Witness ==
    /\ last.op = "roundtrip"
    /\ Len(residues) = 2
    /\ last.p = <<12346, -5, 4>>
    /\ residues[1].position = <<12350, -10, 0>>

-----------------------------------------------------------------------------
(* searchFoldseek (proteinService.ts) and StructureSearch.handleSearch *)

PerDatabase == 10

\* the residue lists searchFoldseek is called with
Chain(n) == [i \in 1..n |-> NewResidue(i, "Gly", <<380 * (i - 1), -10, 0>>)]

BrokenChain == [Chain(3) EXCEPT ![2].position = <<NotFinite, -10, 0>>]

SearchInputs == {Chain(n) : n \in 0..MaxChain} \cup {BrokenChain}

\* what the ticket endpoint can answer
TicketResponses == {"network", "http500", "badJson", "noId", "ticket"}

Alignment(name, score) ==
    [target |-> <<name, "A">>, score |-> score, tname |-> name, qlen |-> 3, tlen |-> 120]

Database(as) == [hasAlignments |-> TRUE, alignments |-> as]

NoAlignments == [hasAlignments |-> FALSE, alignments |-> <<>>]

Payload(dbs) == [hasResults |-> TRUE, results |-> dbs]

NoPayload == [hasResults |-> FALSE, results |-> <<>>]

\* a database with n alignments of descending score
Hits(n) == [j \in 1..n |-> Alignment("hit", 1000 - j)]

Payloads ==
    { NoPayload,
      Payload(<<>>),
      Payload(<<NoAlignments, Database(<<>>)>>),
      Payload(<<Database(<<Alignment("1lyz", 950), Alignment("2abc", 40)>>)>>),
      Payload(<<Database(Hits(PerDatabase + 1)), NoAlignments,
                Database(<<Alignment("", 0), Alignment("3def", 7)>>)>>) }

Json(ok, status, payload, message) ==
    [kind |-> "json", ok |-> ok, status |-> status, payload |-> payload, message |-> message]

\* what the status endpoint can answer
StatusResponses ==
    { [kind |-> "network", ok |-> FALSE, status |-> "", payload |-> NoPayload, message |-> ""],
      [kind |-> "badJson", ok |-> TRUE, status |-> "", payload |-> NoPayload, message |-> ""],
      Json(TRUE, "PENDING", NoPayload, ""),
      Json(TRUE, "RUNNING", NoPayload, ""),
      Json(FALSE, "undefined", NoPayload, ""),
      Json(TRUE, "ERROR", NoPayload, "queue full"),
      Json(TRUE, "ERROR", NoPayload, "") }
    \cup {Json(TRUE, "COMPLETE", pl, "") : pl \in Payloads}

Terminal(status) == status = "COMPLETE" \/ status = "ERROR"

Min(a, b) == IF a < b THEN a ELSE b

\* one alignment as a FoldseekResult: split('_')[0] is the first part
ToResult(a) ==
    [target |-> IF a.target[1] # "" THEN <<a.target[1]>> ELSE a.target,
     score |-> a.score, tname |-> IF a.tname = "" THEN "Unknown" ELSE a.tname,
     qlen |-> a.qlen, tlen |-> a.tlen]

MapResults(as) == [j \in DOMAIN as |-> ToResult(as[j])]

\* a slice that takes every alignment
SliceAll(as) == as

\* line 71: db.alignments.slice(0, 10)
Slice(as) == SubSeq(as, 1, Min(PerDatabase, Len(as)))

\* the nested loops of lines 69-81
RECURSIVE Flatten(_)
Flatten(dbs) ==
    IF dbs = <<>> THEN <<>>
    ELSE LET db == Head(dbs)
         IN  (IF db.hasAlignments THEN MapResults(Slice(db.alignments)) ELSE <<>>)
             \o Flatten(Tail(dbs))

\* the call, settled n times so far, settles with an error; handleSearch
\* catches it
Reject(message, n) ==
    /\ pc' = "rejected"
    /\ outcome' = message
    /\ settles' = n + 1
    /\ error' = IF showSearch THEN message ELSE error
    /\ isLoading' = FALSE

\* a handleSearch without its finally block on the success path
ResolveStillLoading(matches, n) ==
    /\ pc' = "resolved"
    /\ outcome' = Matches
    /\ settles' = n + 1
    /\ results' = IF showSearch THEN matches ELSE results
    /\ isLoading' = isLoading

\* the call, settled n times so far, settles with a match list; handleSearch
\* shows it
Resolve(matches, n) ==
    /\ pc' = "resolved"
    /\ outcome' = Matches
    /\ settles' = n + 1
    /\ results' = IF showSearch THEN matches ELSE results
    /\ isLoading' = FALSE

\* a validation that checks the number of residues only
ValidateLengthOnly(rs) ==
    IF Len(rs) < 3 THEN <<"Please add at least 3 residues to search", "">>
    ELSE NoError

\* lines 17-25: the error thrown before any request, NoError when none is
Validate(rs) ==
    IF Len(rs) < 3 THEN <<"Please add at least 3 residues to search", "">>
    ELSE IF ~ExportIsValid(rs) THEN <<"Failed to export structure", "warnings">>
    ELSE NoError

\* the GENERATE MATCHES button: handleSearch, and searchFoldseek up to its
\* first await
HandleSearch ==
    /\ showSearch
    /\ results = <<>>
    /\ ~isLoading
    /\ submitted' = residues
    /\ ticketAnswer' = NoAnswer
    /\ fetches' = 0
    /\ waits' = 0
    /\ history' = <<>>
    /\ statusData' = NoStatus
    /\ IF Validate(residues) # NoError
       THEN /\ Reject(Validate(residues), 0)
            /\ submits' = 0
            /\ UNCHANGED results
       ELSE /\ pc' = "ticket"
            /\ submits' = 1
            /\ settles' = 0
            /\ outcome' = NoOutcome
            /\ isLoading' = TRUE
            /\ error' = NoError
            /\ UNCHANGED results
    /\ UNCHANGED <<storeVars, loadingPdb, showSearch, pendingLoads, gameVars, last>>


\* ticket handling that never looks at the response's ok flag
TicketErrorIgnoringOk(r) ==
    IF r = "network" THEN <<"Failed to fetch", "">>
    ELSE IF r = "badJson" THEN <<"Unexpected token in JSON", "">>
    ELSE IF r = "noId" THEN <<"No ticket ID received from Foldseek", "">>
    ELSE NoError

\* lines 33-47: the error thrown on the answer r, NoError when r carries a
\* ticket id
TicketError(r) ==
    IF r = "network" THEN <<"Failed to fetch", "">>
    ELSE IF r = "http500" THEN <<"Foldseek API error", "500">>
    ELSE IF r = "badJson" THEN <<"Unexpected token in JSON", "">>
    ELSE IF r = "noId" THEN <<"No ticket ID received from Foldseek", "">>
    ELSE NoError

\* the answer to the ticket submission arrives (lines 33-47)
TicketResponse(r) ==
    /\ pc = "ticket"
    /\ ticketAnswer' = r
    /\ IF TicketError(r) # NoError
       THEN Reject(TicketError(r), settles)
       ELSE /\ pc' = "wait"
            /\ UNCHANGED <<outcome, settles, error, isLoading>>
    /\ UNCHANGED <<storeVars, results, loadingPdb, showSearch, pendingLoads, gameVars,
                   submits, fetches, waits, history, statusData, submitted, last>>

\* the one-second timer of the loop fires and the status fetch is sent
TimerFires ==
    /\ pc = "wait"
    /\ fetches < MaxPolls
    /\ waits' = waits + 1
    /\ fetches' = fetches + 1
    /\ pc' = "status"
    /\ UNCHANGED <<storeVars, uiVars, pendingLoads, gameVars, ticketAnswer, submits, history,
                   statusData, outcome, settles, submitted, last>>

\* a status that was read is kept, up to the bound
Record(h, status) == IF Len(h) < MaxPolls THEN Append(h, status) ELSE h

\* lines 66-90: what the call does with the COMPLETE answer
Parse(payload, n) ==
    IF payload.hasResults
    THEN IF Len(Flatten(payload.results)) = 0
         THEN Reject(<<"No similar structures found", "">>, n) /\ UNCHANGED results
         ELSE Resolve(Flatten(payload.results), n) /\ UNCHANGED error
    ELSE Reject(<<"No results returned from search", "">>, n) /\ UNCHANGED results

\* a loop that never ends by its condition
LoopContinuesAlways(status) == TRUE

\* a loop condition that tests for the error status only
LoopContinuesUnlessError(status) == status # "ERROR"

\* line 52: the condition of the while loop
LoopContinues(status) == status # "COMPLETE" /\ status # "ERROR"

\* an error that drops what the service said
RemoteErrorWithoutMessage(r) == <<"Search failed", "Unknown error">>

\* line 62: 'Search failed: ' + (statusData.error || 'Unknown error')
RemoteError(r) ==
    IF r.message # "" THEN <<"Search failed", r.message>>
    ELSE <<"Search failed", "Unknown error">>

\* the answer to a status fetch arrives: the rest of the loop body (lines
\* 55-63), the loop test and, when the loop ends, lines 66-90
StatusResponse(r) ==
    /\ pc = "status"
    /\ IF r.kind = "network"
       THEN /\ Reject(<<"Failed to fetch", "">>, settles)
            /\ UNCHANGED <<results, history, statusData>>
       ELSE IF r.kind = "badJson"
       THEN /\ Reject(<<"Unexpected token in JSON", "">>, settles)
            /\ UNCHANGED <<results, history, statusData>>
       ELSE /\ history' = Record(history, r.status)
            /\ statusData' = r
            /\ IF r.status = "ERROR"
               THEN /\ Reject(RemoteError(r), settles)
                    /\ UNCHANGED results
               ELSE IF LoopContinues(r.status)
               THEN /\ pc' = "wait"
                    /\ UNCHANGED <<outcome, settles, error, isLoading, results>>
               ELSE Parse(IF r.status = "COMPLETE" THEN r.payload ELSE NoPayload, settles)
    /\ UNCHANGED <<storeVars, loadingPdb, showSearch, pendingLoads, gameVars, ticketAnswer, submits,
                   fetches, waits, submitted, last>>

SearchInit ==
    /\ residues \in SearchInputs
    /\ idCounter = Len(residues)
    /\ issued = Ids(residues)
    /\ selectedId = NoId
    /\ isLoading = FALSE
    /\ results = <<>>
    /\ error = NoError
    /\ loadingPdb = NoPdb
    /\ showSearch = TRUE
    /\ pendingLoads = {}
    /\ pc = "idle"
    /\ ticketAnswer = NoAnswer
    /\ submits = 0
    /\ fetches = 0
    /\ waits = 0
    /\ history = <<>>
    /\ statusData = NoStatus
    /\ outcome = NoOutcome
    /\ settles = 0
    /\ submitted = <<>>
    /\ last = Obs("init", NoId, <<>>, NoId)
    /\ GameStart

SearchNext ==
    \/ HandleSearch
    \/ \E r \in TicketResponses : TicketResponse(r)
    \/ TimerFires
    \/ \E r \in StatusResponses : StatusResponse(r)

SearchSpec == SearchInit /\ [][SearchNext]_vars

-----------------------------------------------------------------------------
(* Properties of one searchFoldseek call, checked under SearchSpec *)

\* the messages of the errors thrown before any request (lines 18, 24)
ValidationErrors == {"Please add at least 3 residues to search", "Failed to export structure"}

\* the messages of the errors thrown on the ticket response (lines 39, 46)
TicketErrors == {"Foldseek API error", "No ticket ID received from Foldseek"}

Settled == pc \in {"resolved", "rejected"}

\* C7: a call on a residue list that is too short or does not export to a
\* valid structure is rejected with a validation error, and sends no ticket
\* submission and no status fetch
C7_InvalidInputSendsNothing ==
    (pc # "idle" /\ (Len(residues) < 3 \/ ~ExportIsValid(residues)))
        => /\ pc = "rejected"
           /\ outcome[1] \in ValidationErrors
           /\ error = outcome
           /\ submits = 0
           /\ fetches = 0
           /\ waits = 0
           /\ ticketAnswer = NoAnswer

\* a call on three residues whose export is not valid has been rejected
C7_Witness ==
    /\ pc = "rejected"
    /\ Len(residues) >= 3
    /\ ~ExportIsValid(residues)
    /\ outcome[1] = "Failed to export structure"

\* C8: when the ticket submission is answered with a non-success HTTP status
\* or without a ticket id, the call is rejected with the error of that
\* answer after exactly one submission and no status fetch; a call never
\* submits twice
C8_BadTicketEndsTheCall ==
    /\ submits <= 1
    /\ ticketAnswer \in {"http500", "noId"}
           => /\ pc = "rejected"
              /\ outcome[1] \in TicketErrors
              /\ error = outcome
              /\ settles = 1
              /\ submits = 1
              /\ fetches = 0
              /\ waits = 0

\* the submission was answered with HTTP 500 and the call is rejected
C8_Witness ==
    /\ ticketAnswer = "http500"
    /\ pc = "rejected"
    /\ outcome = <<"Foldseek API error", "500">>

\* C9: status fetches are sent only after the submission returned a ticket
\* id, each after one wait, and none after the first terminal status: when
\* the k-th fetch is the first to return complete or error, the call has
\* settled with exactly k fetches
C9_PollsStopAtFirstTerminal ==
    /\ fetches > 0 => ticketAnswer = "ticket"
    /\ waits = fetches
    /\ Len(history) <= fetches
    /\ pc = "wait" => Len(history) = fetches
    /\ \A k \in 1..(Len(history) - 1) : ~Terminal(history[k])
    /\ (history # <<>> /\ Terminal(history[Len(history)]))
           => (Settled /\ fetches = Len(history))

\* pending, pending, complete: three fetches and the call has resolved
C9_Witness ==
    /\ history = <<"PENDING", "PENDING", "COMPLETE">>
    /\ fetches = 3
    /\ waits = 3
    /\ pc = "resolved"

\* how many alignments of a database are taken
Taken(db) == IF db.hasAlignments THEN Min(Len(db.alignments), PerDatabase) ELSE 0

\* how many records the databases before the d-th contribute
RECURSIVE Offset(_, _)
Offset(dbs, d) == IF d <= 1 THEN 0 ELSE Offset(dbs, d - 1) + Taken(dbs[d - 1])

\* the name a record shows for an alignment
ShownName(a) == IF a.tname = "" THEN "Unknown" ELSE a.tname

\* C11: after a complete status whose payload has results, the match list
\* holds, database after database and alignment after alignment, one record
\* for each of the first 10 alignments of each database, with the score of
\* that alignment and its name, or "Unknown" when the name is empty; if that
\* makes zero records the call is rejected with the no-matches error; a
\* resolved match list is never empty
C11_FlattenedAndCapped ==
    LET dbs == statusData.payload.results
        total == Offset(dbs, Len(dbs) + 1)
    IN  /\ (pc = "resolved" => results # <<>>)
        /\ (statusData.status = "COMPLETE" /\ statusData.payload.hasResults)
               => IF total = 0
                  THEN /\ pc = "rejected"
                       /\ outcome = <<"No similar structures found", "">>
                       /\ results = <<>>
                  ELSE /\ pc = "resolved"
                       /\ Len(results) = total
                       /\ \A d \in DOMAIN dbs : \A j \in 1..Taken(dbs[d]) :
                              /\ results[Offset(dbs, d) + j].score = dbs[d].alignments[j].score
                              /\ results[Offset(dbs, d) + j].tname
                                     = ShownName(dbs[d].alignments[j])

\* C11 as stated: every record carries the name of its alignment as it is
C11_NamesCopiedAsTheyAre ==
    LET dbs == statusData.payload.results
    IN  (pc = "resolved" /\ statusData.status = "COMPLETE")
            => \A d \in DOMAIN dbs : \A j \in 1..Taken(dbs[d]) :
                   /\ results[Offset(dbs, d) + j].score = dbs[d].alignments[j].score
                   /\ results[Offset(dbs, d) + j].tname = dbs[d].alignments[j].tname

\* a payload with 11 alignments in its first database and 2 in its third
\* has resolved to 12 records
C11_Witness ==
    /\ pc = "resolved"
    /\ Len(statusData.payload.results) = 3
    /\ Len(statusData.payload.results[1].alignments) = PerDatabase + 1
    /\ Len(results) = PerDatabase + 2
    /\ results[PerDatabase + 2].tname = "3def"

\* C12: once a status fetch has returned the error status, the call is
\* rejected with the search-failed error carrying the message the service
\* gave, and the fetch that returned it is the last one of the call
C12_ErrorStatusRejects ==
    statusData.status = "ERROR"
        => /\ pc = "rejected"
           /\ outcome[1] = "Search failed"
           /\ statusData.message # "" => outcome[2] = statusData.message
           /\ error = outcome
           /\ settles = 1
           /\ history[Len(history)] = "ERROR"
           /\ fetches = Len(history)

\* after a pending answer the service answered with the error status and
\* the message "queue full"
C12_Witness ==
    /\ statusData.status = "ERROR"
    /\ statusData.message = "queue full"
    /\ history = <<"PENDING", "ERROR">>
    /\ fetches = 2
    /\ outcome = <<"Search failed", "queue full">>

\* the loop has no attempt cap: past the bound the fetches go on and are no
\* longer counted
\* a loop that gives up after MaxPolls status fetches
TimerGivesUp ==
    /\ pc = "wait"
    /\ fetches = MaxPolls
    /\ Reject(<<"Search timed out", "">>, settles)
    /\ UNCHANGED <<storeVars, results, loadingPdb, showSearch, pendingLoads, gameVars, ticketAnswer,
                   submits, fetches, waits, history, statusData, submitted, last>>

TimerFiresUncounted ==
    /\ pc = "wait"
    /\ fetches = MaxPolls
    /\ pc' = "status"
    /\ UNCHANGED <<storeVars, uiVars, pendingLoads, gameVars, ticketAnswer, submits, fetches, waits,
                   history, statusData, outcome, settles, submitted, last>>

SearchLiveNext == SearchNext \/ TimerFiresUncounted

\* timers fire and every request is answered
SearchLiveSpec ==
    /\ SearchInit
    /\ [][SearchLiveNext]_vars
    /\ WF_vars(TimerFires \/ TimerFiresUncounted)
    /\ WF_vars(\E r \in TicketResponses : TicketResponse(r))
    /\ WF_vars(\E r \in StatusResponses : StatusResponse(r))

\* a status fetch is answered with a terminal status
TerminalAnswer ==
    \E r \in StatusResponses :
        r.kind = "json" /\ Terminal(r.status) /\ StatusResponse(r)

\* C10 as stated: every call eventually settles, and settles exactly once
C10_EveryCallSettles ==
    /\ [](settles <= 1)
    /\ [](Settled => settles = 1)
    /\ (pc # "idle") ~> Settled

\* C10: a call settles at most once, and exactly once when it has settled;
\* it eventually settles if the service, whenever it is polled again and
\* again, eventually answers a status fetch with complete or error
C10_SettlesUnderFairService ==
    /\ [](settles <= 1)
    /\ [](Settled => settles = 1)
    /\ SF_vars(TerminalAnswer) => ((pc # "idle") ~> Settled)

\* C25 as stated: a ticket response or a status response with a non-success
\* HTTP status makes the call reject
C25_NonSuccessStatusRejects ==
    [][/\ TicketResponse("http500") => pc' = "rejected"
       /\ \A r \in StatusResponses :
              (StatusResponse(r) /\ r.kind = "json" /\ ~r.ok) => pc' = "rejected"]_vars

\* C24: under timers that fire and requests that are answered, a call in
\* flight settles if the service, polled again and again, eventually gives a
\* terminal answer; an answer that parses with a non-terminal status sends
\* the call back to its wait; a waiting call always goes on to its next
\* status fetch, however many it has sent, so the count of fetches goes up
\* by one from every value below the bound of the model
C24_NoCapButLiveUnderFairService ==
    /\ SF_vars(TerminalAnswer) => ((pc \in {"ticket", "wait", "status"}) ~> Settled)
    /\ [][\A r \in StatusResponses :
              (StatusResponse(r) /\ r.kind = "json" /\ ~Terminal(r.status)) => pc' = "wait"]_vars
    /\ (pc = "wait") ~> (pc = "status")
    /\ \A n \in 0..(MaxPolls - 1) :
           (pc = "wait" /\ fetches = n) ~> (pc = "status" /\ fetches = n + 1)

\* a status fetch is out after as many non-terminal answers as the model
\* counts
C24_Witness ==
    /\ pc = "status"
    /\ fetches = MaxPolls
    /\ Len(history) = MaxPolls
    /\ \A i \in DOMAIN history : ~Terminal(history[i])

\* a call has resolved after the service first answered pending
C10_Witness ==
    /\ pc = "resolved"
    /\ settles = 1
    /\ outcome = Matches
    /\ Len(history) >= 2
    /\ history[1] = "PENDING"

-----------------------------------------------------------------------------
(* A search next to the handlers of the playground and the modal's buttons *)

\* the graph after the structure 3TRI was loaded; the load closed the modal
SessionInit ==
    /\ residues = FetchPDBStructure("3TRI", TRUE).residues
    /\ selectedId = NoId
    /\ idCounter = 0
    /\ issued = {}
    /\ isLoading = FALSE
    /\ results = <<>>
    /\ error = NoError
    /\ loadingPdb = NoPdb
    /\ showSearch = FALSE
    /\ pendingLoads = {}
    /\ pc = "idle"
    /\ ticketAnswer = NoAnswer
    /\ submits = 0
    /\ fetches = 0
    /\ waits = 0
    /\ history = <<>>
    /\ statusData = NoStatus
    /\ outcome = NoOutcome
    /\ settles = 0
    /\ submitted = <<>>
    /\ last = Obs("loaded", NoId, <<"3TRI", "mounted">>, NoId)
    /\ GameStart

\* the answers of the service followed here
SessionTicketResponses == {"network", "ticket"}

SessionStatusResponses ==
    { Json(TRUE, "PENDING", NoPayload, ""),
      Json(TRUE, "ERROR", NoPayload, "queue full"),
      Json(TRUE, "COMPLETE", Payload(<<Database(<<Alignment("1lyz", 950)>>)>>), "") }

\* a step of the running searchFoldseek call or of handleSearch around it
SearchStep ==
    \/ HandleSearch
    \/ \E r \in SessionTicketResponses : TicketResponse(r)
    \/ TimerFires
    \/ \E r \in SessionStatusResponses : StatusResponse(r)

SessionNext ==
    \/ SearchStep
    \/ \E code \in AminoCodes : HandleDrop(code, <<0, 0, 0>>)
    \/ \E i \in DOMAIN residues : HandleClick(i)
    \/ DeleteSelected
    \/ ClearAll
    \/ OpenSearch
    \/ CloseSearch

SessionSpec == SessionInit /\ [][SessionNext]_vars

\* the call is suspended at one of its awaits: the submit response, the
\* interval wait, a status fetch
InFlight == pc \in {"ticket", "wait", "status"}

\* C19: while the call is suspended every graph operation can be taken
\* (a drop, a click on any residue, the deletion of the selected residue,
\* the clear of a non-empty graph); the residues the call exports are the
\* graph at the moment handleSearch was invoked and stay what they were
\* whatever happens to the graph afterwards; and no step of the search, its
\* settling included, changes the residues or the selection
C19_SearchLeavesTheGraphAlone ==
    /\ [](InFlight =>
             /\ idCounter < MaxIds => \A code \in AminoCodes : ENABLED HandleDrop(code, <<0, 0, 0>>)
             /\ \A i \in DOMAIN residues : ENABLED HandleClick(i)
             /\ selectedId # NoId => ENABLED DeleteSelected
             /\ residues # <<>> => ENABLED ClearAll)
    /\ [][HandleSearch => submitted' = residues]_vars
    /\ [][InFlight => submitted' = submitted]_vars
    /\ [][callVars' # callVars => residues' = residues /\ selectedId' = selectedId]_vars

\* a status fetch is out while the graph, with a residue selected, is no
\* longer the one that was submitted
C19_Witness ==
    /\ pc = "status"
    /\ fetches >= 2
    /\ submitted # residues
    /\ Len(submitted) = 3
    /\ selectedId # NoId

\* C20: closing the modal changes nothing of the running call; while the
\* modal is closed the timer of a waiting call can fire and a status fetch
\* that is out can be answered; every fetch is for the ticket the call
\* received; and the call leaves the loop only on the answer to a status
\* fetch
C20_CloseDoesNotStopTheSearch ==
    /\ [][showSearch /\ ~showSearch' => callVars' = callVars]_vars
    /\ [](~showSearch /\ pc = "wait" /\ fetches < MaxPolls => ENABLED TimerFires)
    /\ [](~showSearch /\ pc = "status" =>
             \A r \in SessionStatusResponses : ENABLED StatusResponse(r))
    /\ [][~showSearch /\ pc \in {"wait", "status"} =>
             /\ ticketAnswer' = ticketAnswer
             /\ pc' \notin {"wait", "status"} => pc = "status" /\ Settled']_vars

\* the modal was closed after the first status fetch; the call sent two
\* more and resolved, and nothing shows its matches
C20_Witness ==
    /\ ~showSearch
    /\ last.op = "close"
    /\ last.p = <<1>>
    /\ fetches = 3
    /\ pc = "resolved"
    /\ results = <<>>

-----------------------------------------------------------------------------
(* The modal as the user drives it: the buttons it renders and what they call *)

\* the GENERATE MATCHES button is rendered (results.length === 0 &&
\* !isLoading) and not disabled (residues.length < 3)
SearchButton ==
    /\ showSearch
    /\ results = <<>>
    /\ ~isLoading
    /\ Len(residues) >= 3

\* the DEPLOY button of a match for pdb is rendered (the result list is the
\* third branch of isLoading ? .. : error ? .. : results.length > 0 ? ..)
\* and not disabled (loadingPdb === result.target)
DeployButton(pdb) ==
    /\ showSearch
    /\ ~isLoading
    /\ error = NoError
    /\ \E i \in DOMAIN results : results[i].target[1] = pdb
    /\ loadingPdb # pdb

SearchClick == SearchButton /\ HandleSearch

DeployClick(pdb) == DeployButton(pdb) /\ HandleLoadResult(pdb)

\* the status answers followed here: the matches are two files with
\* residues and one without
ModalStatusResponses ==
    { Json(TRUE, "PENDING", NoPayload, ""),
      Json(TRUE, "ERROR", NoPayload, "queue full"),
      Json(TRUE, "COMPLETE",
           Payload(<<Database(<<Alignment("1ABC", 950), Alignment("2XYZ", 900),
                                Alignment("0NUL", 40)>>)>>), "") }

ModalNext ==
    \/ SearchClick
    \/ \E r \in SessionTicketResponses : TicketResponse(r)
    \/ TimerFires
    \/ \E r \in ModalStatusResponses : StatusResponse(r)
    \/ \E pdb \in PdbIds : DeployClick(pdb)
    \/ \E pdb \in PdbIds, ok \in BOOLEAN : LoadSettles(pdb, ok)
    \/ OpenSearch
    \/ CloseSearch

ModalSpec == SessionInit /\ [][ModalNext]_vars

\* C21 as stated: whenever the open modal shows a failure and neither a
\* search nor a load is in flight, a button that invokes a search or a load
\* again is there to be pressed
C21_FailedOperationsCanBeRetried ==
    (showSearch /\ error # NoError /\ ~isLoading /\ ~InFlight /\ pendingLoads = {})
        => (SearchButton \/ \E pdb \in PdbIds : DeployButton(pdb))

-----------------------------------------------------------------------------
(* Drags in a graph of three residues, checked under SnapSpec *)

\* three residues dropped one after the other and dragged apart along a line
SnapGraph ==
    << NewResidue(1, "Gly", <<0, -10, 0>>),
       NewResidue(2, "Gly", <<600, -10, 0>>),
       NewResidue(3, "Gly", <<1500, -10, 0>>) >>

\* pointer positions (x, y): midway between the first two residues, near the
\* first, far from both, and off the line
SnapTargets == {<<300, -10>>, <<100, -10>>, <<1500, -10>>, <<180, 230>>}

SnapInit ==
    /\ residues = SnapGraph
    /\ selectedId = NoId
    /\ idCounter = Len(SnapGraph)
    /\ issued = Ids(SnapGraph)
    /\ isLoading = FALSE
    /\ results = <<>>
    /\ error = NoError
    /\ loadingPdb = NoPdb
    /\ showSearch = FALSE
    /\ pendingLoads = {}
    /\ pc = "idle"
    /\ ticketAnswer = NoAnswer
    /\ submits = 0
    /\ fetches = 0
    /\ waits = 0
    /\ history = <<>>
    /\ statusData = NoStatus
    /\ outcome = NoOutcome
    /\ settles = 0
    /\ submitted = <<>>
    /\ last = Obs("add", Len(SnapGraph), <<1500, -10, 0>>, NoId)
    /\ GameStart

SnapNext ==
    \/ \E i \in DOMAIN residues, t \in SnapTargets, active \in BOOLEAN :
           DragHandler(i, t, active)
    \/ \E i \in DOMAIN residues : HandleClick(i)

SnapSpec == SnapInit /\ [][SnapNext]_vars

\* the eligible residues nearest to p
Nearest(rs, id, p) ==
    {j \in Eligible(rs, id, p) :
        \A k \in Eligible(rs, id, p) : DistSq(p, rs[j].position) <= DistSq(p, rs[k].position)}

\* the least index of a non-empty set of indices
First(S) == CHOOSE j \in S : \A k \in S : j <= k

\* C22: the neighbor a release picks is a residue other than the dragged
\* one whose connectedTo is not the dragged id, none of those is nearer to
\* the drop point, and of those equally near it is the first in the list; a
\* residue whose connectedTo is the dragged id is never picked
C22_NearestEligibleFirstInOrder ==
    [][(last'.op = "release" /\ last'.neighbor # NoId) =>
          LET j == IndexOf(residues, last'.neighbor)
          IN  /\ residues[j].id # last'.id
              /\ residues[j].connectedTo # last'.id
              /\ j = First(Nearest(residues, last'.id, last'.p))]_vars

\* a release snapped onto the first of two eligible residues that were
\* equally near the drop point
C22_Witness ==
    /\ Snapped
    /\ \E j \in DOMAIN residues :
           /\ j > IndexOf(residues, last.neighbor)
           /\ residues[j].id # last.id
           /\ residues[j].connectedTo # last.id
           /\ DistSq(last.p, residues[j].position) = DistSq(last.p, Neighbor.position)

\* the indices whose connectedTo differs between two lists of equal length
BondsChanged(before, after) ==
    {j \in DOMAIN before : after[j].connectedTo # before[j].connectedTo}

\* C23: a release leaves the list as long as it was with the same ids,
\* types and rotations in the same order, moves no residue but the dragged
\* one, changes at most one connectedTo, and none when no neighbor was
\* picked, leaves the selection alone, and its result is the function
\* DragResult of the list, the dragged id and the drop point
C23_ReleaseChangesOnlyTheSnap ==
    [][last'.op = "release" =>
          /\ Len(residues') = Len(residues)
          /\ \A j \in DOMAIN residues :
                 /\ residues'[j].id = residues[j].id
                 /\ residues'[j].type = residues[j].type
                 /\ residues'[j].rotation = residues[j].rotation
                 /\ residues[j].id # last'.id => residues'[j].position = residues[j].position
          /\ Cardinality(BondsChanged(residues, residues')) <= 1
          /\ last'.neighbor = NoId => BondsChanged(residues, residues') = {}
          /\ selectedId' = selectedId
          /\ residues' = DragResult(residues, last'.id, last'.p, FALSE)]_vars

\* a release snapped onto the selected residue: the dragged residue is not
\* where it was dropped, the neighbor points at it and is still selected
C23_Witness ==
    /\ Snapped
    /\ selectedId = last.neighbor
    /\ Dragged.position # last.p
    /\ Neighbor.connectedTo = last.id
    /\ \E j \in DOMAIN residues :
           residues[j].id \notin {last.id, last.neighbor} /\ residues[j].connectedTo # NoId

\* the number of residues that have a bond
BondCount(rs) == Cardinality({j \in DOMAIN rs : rs[j].connectedTo # NoId})

\* C29: a snap writes one connectedTo, on one residue of the snapped pair
\* and pointing at the other, whatever that field held before, and leaves
\* every other connectedTo as it was; the number of bonds goes up by one
\* when the field was null and stays the same when it held a bond, which is
\* then gone
C29_SnapOverwritesOneBond ==
    [][(last'.op = "release" /\ last'.neighbor # NoId) =>
          LET pair == {last'.id, last'.neighbor}
              written == {j \in DOMAIN residues :
                             /\ residues[j].id \in pair
                             /\ residues'[j].connectedTo \in pair \ {residues[j].id}
                             /\ residues[j].connectedTo = last'.replaced}
          IN  /\ Cardinality(written) >= 1
              /\ \E j \in written :
                     /\ \A k \in DOMAIN residues \ {j} :
                            residues'[k].connectedTo = residues[k].connectedTo
                     /\ BondCount(residues') =
                            IF residues[j].connectedTo = NoId
                            THEN BondCount(residues) + 1
                            ELSE BondCount(residues)
                     /\ residues[j].connectedTo # NoId =>
                            \A k \in DOMAIN residues :
                                residues'[k].id = residues[j].id =>
                                    residues'[k].connectedTo # residues[j].connectedTo]_vars

\* a snap replaced the bond its receiver had to a third residue
C29_Witness ==
    /\ Snapped
    /\ last.replaced # NoId
    /\ last.replaced \notin {last.id, last.neighbor}
    /\ last.replaced \in Ids(residues)
    /\ \A j \in DOMAIN residues :
           residues[j].id \in {last.id, last.neighbor} => residues[j].connectedTo # last.replaced

\* C27: while the modal is open its loading flag is true exactly while its
\* search is in flight; a search starts only from a state with the flag
\* false, no search in flight and an empty result list; and no button
\* starts a search while one is in flight
C27_OneSearchPerInstance ==
    /\ [](showSearch => (isLoading <=> InFlight))
    /\ [](InFlight => ~SearchButton)
    /\ [][(pc' = "ticket" /\ submits' = 1 /\ pc # "ticket") =>
             (showSearch /\ ~isLoading /\ ~InFlight /\ results = <<>>)]_vars

\* a search of the open modal is in flight after a non-terminal answer: the
\* flag is set and the search button is not rendered although the result
\* list is empty and the graph has three residues
C27_Witness ==
    /\ showSearch
    /\ isLoading
    /\ pc = "status"
    /\ fetches = 2
    /\ results = <<>>
    /\ Len(residues) >= 3
    /\ ~SearchButton

-----------------------------------------------------------------------------
(* The tic-tac-toe game (TicTacToePage.tsx), checked under GameSpec *)

Squares == 0..8

Lines ==
    << <<0, 1, 2>>, <<3, 4, 5>>, <<6, 7, 8>>, <<0, 3, 6>>,
       <<1, 4, 7>>, <<2, 5, 8>>, <<0, 4, 8>>, <<2, 4, 6>> >>

\* the indices of the lines that one mark fills
Completed(squares) ==
    {l \in DOMAIN Lines :
        /\ squares[Lines[l][1]] # NoSquare
        /\ squares[Lines[l][1]] = squares[Lines[l][2]]
        /\ squares[Lines[l][1]] = squares[Lines[l][3]]}

\* calculateWinner(squares).winner: the mark of the first completed line,
\* NoSquare for a null result
calculateWinner(squares) ==
    IF Completed(squares) = {} THEN NoSquare
    ELSE squares[Lines[CHOOSE l \in Completed(squares) :
                           \A k \in Completed(squares) : l <= k][1]]

Full(squares) == \A i \in Squares : squares[i] # NoSquare

Empties(squares) == {i \in Squares : squares[i] = NoSquare}

SetMax(S) == CHOOSE x \in S : \A y \in S : y <= x

SetMin(S) == CHOOSE x \in S : \A y \in S : x <= y

\* minimax of findBestMove
RECURSIVE minimax(_, _, _)
minimax(b, depth, isMaximizing) ==
    LET winner == calculateWinner(b)
    IN  IF winner = "O" THEN 10 - depth
        ELSE IF winner = "X" THEN depth - 10
        ELSE IF Full(b) THEN 0
        ELSE IF isMaximizing
        THEN SetMax({minimax([b EXCEPT ![i] = "O"], depth + 1, FALSE) : i \in Empties(b)})
        ELSE SetMin({minimax([b EXCEPT ![i] = "X"], depth + 1, TRUE) : i \in Empties(b)})

\* a CPU that takes the first empty square
findFirstEmpty(squares) ==
    IF Empties(squares) = {} THEN -1 ELSE SetMin(Empties(squares))

\* findBestMove(squares): the first empty square of the highest score, -1
\* on a full board
findBestMove(squares) ==
    IF Empties(squares) = {} THEN -1
    ELSE LET score == [i \in Empties(squares) |->
                          minimax([squares EXCEPT ![i] = "O"], 0, FALSE)]
             bestScore == SetMax({score[i] : i \in Empties(squares)})
         IN  SetMin({i \in Empties(squares) : score[i] = bestScore})

\* makeMove(index): the board after the move
makeMove(squares, index, xNext) ==
    [squares EXCEPT ![index] = IF xNext THEN "X" ELSE "O"]

\* handleClick(index) of a square
SquareClick(index) ==
    /\ board[index] = NoSquare
    /\ calculateWinner(board) = NoSquare
    /\ ~(isCPUMode /\ ~xIsNext)
    /\ board' = makeMove(board, index, xIsNext)
    /\ xIsNext' = ~xIsNext
    /\ UNCHANGED <<isCPUMode, storeVars, uiVars, pendingLoads, callVars, last>>

\* the timer of the CPU move effect fires
CpuMove ==
    /\ isCPUMode
    /\ ~xIsNext
    /\ calculateWinner(board) = NoSquare
    /\ ~Full(board)
    /\ LET move == findBestMove(board)
       IN  IF move # -1
           THEN board' = makeMove(board, move, xIsNext) /\ xIsNext' = ~xIsNext
           ELSE UNCHANGED <<board, xIsNext>>
    /\ UNCHANGED <<isCPUMode, storeVars, uiVars, pendingLoads, callVars, last>>

\* resetGame: the Next Round button, and Reset All through resetScores
ResetGame ==
    /\ board' = [i \in Squares |-> NoSquare]
    /\ xIsNext' = TRUE
    /\ UNCHANGED <<isCPUMode, storeVars, uiVars, pendingLoads, callVars, last>>

\* the vs Local and vs CPU buttons: the other mode is set and the game reset
SwitchMode ==
    /\ isCPUMode' = ~isCPUMode
    /\ board' = [i \in Squares |-> NoSquare]
    /\ xIsNext' = TRUE
    /\ UNCHANGED <<storeVars, uiVars, pendingLoads, callVars, last>>

GameNext ==
    \/ \E index \in Squares : SquareClick(index)
    \/ CpuMove
    \/ ResetGame
    \/ SwitchMode

GameSpec == Init /\ [][GameNext]_vars

\* C30: in CPU mode no board has a completed line of X, and a CPU move
\* happens on O's turn and writes O into one square that was empty, leaving
\* every other square as it was
C30_HumanNeverWins ==
    /\ [](isCPUMode => calculateWinner(board) # "X")
    /\ [](isCPUMode => \A l \in DOMAIN Lines : \E k \in 1..3 : board[Lines[l][k]] # "X")
    /\ [][CpuMove =>
             /\ ~xIsNext
             /\ \E i \in Squares :
                    /\ board[i] = NoSquare
                    /\ board'[i] = "O"
                    /\ \A j \in Squares \ {i} : board'[j] = board[j]]_vars

\* a game against the CPU was played to a full board without a winner
C30_Witness ==
    /\ isCPUMode
    /\ Full(board)
    /\ calculateWinner(board) = NoSquare

====
